---- MODULE Spec2Model ----
(***************************************************************************)
(* Model of the uptime monitor's health-check engine (monitor.go):         *)
(* RetryConfig / IsRetryableError, CheckDomain, determineStatus, RunCheck  *)
(* and generateReport.  Strings that the code inspects (error messages,    *)
(* domains) are sequences of one-character strings, so strings.Contains    *)
(* and strings.HasPrefix are computed, not assumed.                        *)
(***************************************************************************)
EXTENDS Integers, Sequences, FiniteSets, TLC

VARIABLES
    domains,     \* m.config.Domains
    ctx,         \* state of the run context: "active", "canceled", "deadline"
    rpc,         \* RunCheck's position: "spawn", "wait", "report", "returned"
    spawned,     \* number of goroutines RunCheck's loop has started
    wg,          \* sync.WaitGroup counter
    semaphore,   \* number of elements in the semaphore channel
    pc,          \* position of each per-domain goroutine
    attempt,     \* CheckDomain's loop variable, per goroutine
    result,      \* CheckDomain's local `result`, per goroutine
    lastResult,  \* CheckDomain's local `lastResult`, per goroutine
    results,     \* RunCheck's `results` slice
    report,      \* the *MonitorReport RunCheck returns
    call,        \* last direct call of a pure function: [fn, args, ret]
    stats,       \* counters of each goroutine's CheckDomain call
    runErr,      \* the error RunCheck returns to main
    mpc,         \* main's position after RunCheck
    cfg,         \* m.config: APIURL, SlackWebhook and DiscordWebhook
    saveErr,     \* the error SaveReport returned
    submitErr,   \* the error SubmitToAPI returned
    subAttempt,  \* SubmitToAPI's loop variable
    lastErr,     \* SubmitToAPI's local `lastErr`
    subStatus,   \* resp.StatusCode of the last submission answer, 0 if none
    posts,       \* number of m.client.Do calls SubmitToAPI has made
    slackCalls,  \* number of sendSlackNotification calls
    discordCalls,\* number of sendDiscordNotification calls
    emails,      \* number of SendEmailOnFailure calls
    exitCode,    \* the argument of os.Exit, -1 before the call
    notifyErrs,  \* the webhooks whose send returned an error
    bucket,      \* tokens in each rate limiter
    clock,       \* refill periods elapsed
    window,      \* an observation interval: [elapsed, grants]
    keys,        \* rows of the server's API key table
    gen,         \* the generateApiKey calls in progress
    req,         \* the request the server's middleware chain is handling
    rl,          \* the rateLimiter map's record of the watched client IP
    now,         \* Date.now() of the server, in ms
    period       \* an observed 15-minute period: [open, start, admitted]

mainVars ==
    <<mpc, cfg, saveErr, submitErr, subAttempt, lastErr, subStatus, posts,
      slackCalls, discordCalls, emails, exitCode, notifyErrs>>

limVars ==
    <<bucket, clock, window>>

srvVars ==
    <<keys, gen, req, rl, now, period>>

vars ==
    <<domains, ctx, rpc, spawned, wg, semaphore, pc, attempt, result,
      lastResult, results, report, call, stats, runErr, mainVars, limVars, srvVars>>

(***************************************************************************)
(* Bounds of the model.                                                    *)
(***************************************************************************)
NumDomains ==
    3

Concurrent ==
    2

MaxResults ==
    3

MaxMainResults ==
    2

NumReturned ==
    4

MaxTicks ==
    3

MaxStatusCode ==
    599

MaxAttemptInput ==
    12

(***************************************************************************)
(* Program constants (monitor.go, const block).                            *)
(***************************************************************************)
StatusUp ==
    "up"

StatusDown ==
    "down"

StatusDegraded ==
    "degraded"

ThresholdFast ==
    1000

ThresholdAccept ==
    3000

MaxRetries ==
    3

\* durations are in milliseconds
InitialBackoff ==
    1000

MaxBackoff ==
    30000

BackoffMultiplier ==
    2

RequestsPerSecond ==
    10

BurstSize ==
    20

(***************************************************************************)
(* Strings.                                                                *)
(***************************************************************************)
NeedleMarshal ==
    <<"m","a","r","s","h","a","l">>

NeedleInvalid ==
    <<"i","n","v","a","l","i","d">>

NeedleCtxCancelled ==
    <<"c","o","n","t","e","x","t"," ","c","a","n","c","e","l","l","e","d">>

HttpPrefix ==
    <<"h","t","t","p",":","/","/">>

HttpsPrefix ==
    <<"h","t","t","p","s",":","/","/">>

MsgCanceled ==
    <<"c","o","n","t","e","x","t"," ","c","a","n","c","e","l","e","d">>

MsgDeadlineExceeded ==
    <<"c","o","n","t","e","x","t"," ","d","e","a","d","l","i","n","e"," ","e","x","c","e","e","d","e","d">>

MsgConnRefused ==
    <<"d","i","a","l"," ","t","c","p",":"," ","c","o","n","n","e","c","t",":"," ","c","o","n","n","e","c","t","i","o","n"," ","r","e","f","u","s","e","d">>

MsgNoSuchHost ==
    <<"d","i","a","l"," ","t","c","p",":"," ","n","o"," ","s","u","c","h"," ","h","o","s","t">>

MsgClientTimeout ==
    <<"c","o","n","t","e","x","t"," ","d","e","a","d","l","i","n","e"," ","e","x","c","e","e","d","e","d"," ","(","C","l","i","e","n","t",".","T","i","m","e","o","u","t"," ","e","x","c","e","e","d","e","d"," ","w","h","i","l","e"," ","a","w","a","i","t","i","n","g"," ","h","e","a","d","e","r","s",")">>

MsgInvalidHeader ==
    <<"n","e","t","/","h","t","t","p",":"," ","i","n","v","a","l","i","d"," ","h","e","a","d","e","r"," ","f","i","e","l","d"," ","v","a","l","u","e">>

MsgTooManyRedirects ==
    <<"t","o","o"," ","m","a","n","y"," ","r","e","d","i","r","e","c","t","s">>

MsgInvalidEscape ==
    <<"i","n","v","a","l","i","d"," ","U","R","L"," ","e","s","c","a","p","e">>

MsgMissingBracket ==
    <<"m","i","s","s","i","n","g"," ","'","]","'"," ","i","n"," ","h","o","s","t">>

MsgGet ==
    <<"G","e","t"," ">>

MsgParse ==
    <<"p","a","r","s","e"," ">>

MsgQuote ==
    <<"\"">>

MsgColon ==
    <<":"," ">>

MsgRateLimiter ==
    <<"R","a","t","e"," ","l","i","m","i","t","e","r"," ","e","r","r","o","r",":"," ">>

MsgCreateFailed ==
    <<"F","a","i","l","e","d"," ","t","o"," ","c","r","e","a","t","e"," ","r","e","q","u","e","s","t",":"," ">>

MsgRequestFailed ==
    <<"R","e","q","u","e","s","t"," ","f","a","i","l","e","d",":"," ">>

MsgCtxRetry ==
    <<"C","o","n","t","e","x","t"," ","c","a","n","c","e","l","l","e","d"," ","d","u","r","i","n","g"," ","r","e","t","r","y">>

MsgNoBackendURL ==
    <<"f","a","i","l","e","d"," ","t","o"," ","p","r","o","v","i","d","e"," ","b","a","c","k","e","n","d"," ","u","r","l">>

MsgSubmitRateLimiter ==
    <<"r","a","t","e"," ","l","i","m","i","t","e","r"," ","e","r","r","o","r",":"," ">>

MsgSubmitCreateFailed ==
    <<"f","a","i","l","e","d"," ","t","o"," ","c","r","e","a","t","e"," ","A","P","I"," ","r","e","q","u","e","s","t",":"," ">>

MsgSubmitFailed ==
    <<"f","a","i","l","e","d"," ","t","o"," ","s","u","b","m","i","t"," ","t","o"," ","A","P","I",":"," ">>

MsgSubmitAfterAttempts ==
    <<"A","P","I"," ","s","u","b","m","i","s","s","i","o","n"," ","f","a","i","l","e","d"," ","a","f","t","e","r"," ","4"," ","a","t","t","e","m","p","t","s",":"," ">>

MsgSubmitCtxRetry ==
    <<"c","o","n","t","e","x","t"," ","c","a","n","c","e","l","l","e","d"," ","d","u","r","i","n","g"," ","r","e","t","r","y",":"," ">>

MsgSubmitStatus ==
    <<"A","P","I"," ","s","u","b","m","i","s","s","i","o","n"," ","f","a","i","l","e","d"," ","w","i","t","h"," ","s","t","a","t","u","s"," ">>

MsgPost ==
    <<"P","o","s","t"," ">>

BodyNotFound ==
    <<"N","o","t"," ","F","o","u","n","d">>

BodyInvalidPayload ==
    <<"i","n","v","a","l","i","d"," ","p","a","y","l","o","a","d">>

MsgMkdirFailed ==
    <<"f","a","i","l","e","d"," ","t","o"," ","c","r","e","a","t","e"," ","o","u","t","p","u","t"," ","d","i","r","e","c","t","o","r","y",":"," ">>

MsgMarshalFailed ==
    <<"f","a","i","l","e","d"," ","t","o"," ","m","a","r","s","h","a","l"," ","J","S","O","N",":"," ">>

MsgUnsupportedValue ==
    <<"j","s","o","n",":"," ","u","n","s","u","p","p","o","r","t","e","d"," ","v","a","l","u","e",":"," ","N","a","N">>

MsgWriteFailed ==
    <<"f","a","i","l","e","d"," ","t","o"," ","w","r","i","t","e"," ","f","i","l","e",":"," ">>

MsgPermissionDenied ==
    <<"p","e","r","m","i","s","s","i","o","n"," ","d","e","n","i","e","d">>

MsgWebhookStatus ==
    <<"w","e","b","h","o","o","k"," ","f","a","i","l","e","d"," ","w","i","t","h"," ","s","t","a","t","u","s"," ">>

NeedleCancel ==
    <<"c","a","n","c","e","l">>

NeedleDeadline ==
    <<"d","e","a","d","l","i","n","e">>

(***************************************************************************)
(* strings.Contains and strings.HasPrefix.                                 *)
(***************************************************************************)
Contains(s, substr) ==
    \E k \in 1..(Len(s) - Len(substr) + 1) :
        SubSeq(s, k, k + Len(substr) - 1) = substr

HasPrefix(s, prefix) ==
    /\ Len(s) >= Len(prefix)
    /\ SubSeq(s, 1, Len(prefix)) = prefix

(***************************************************************************)
(* Go error values: nil, or an error with the text Error() returns.        *)
(***************************************************************************)
NilErr ==
    [isNil |-> TRUE, msg |-> <<>>]

Err(m) ==
    [isNil |-> FALSE, msg |-> m]

\* net/url.Error{Op, URL, Err}.Error(), the error http.Client.Do and
\* http.NewRequestWithContext return: Op "URL": inner
UrlError(op, url, inner) ==
    Err(op \o MsgQuote \o url \o MsgQuote \o MsgColon \o inner)

\* ctx.Err() once the context is done
CtxErr(c) ==
    IF c = "canceled" THEN Err(MsgCanceled) ELSE Err(MsgDeadlineExceeded)

(***************************************************************************)
(* RetryConfig.CalculateBackoff (monitor.go).                              *)
(***************************************************************************)
\* math.Pow(base, exp) for a whole exponent
RECURSIVE Pow(_, _)
Pow(base, exp) ==
    IF exp = 0 THEN 1 ELSE base * Pow(base, exp - 1)

CalculateBackoffUncapped(attemptIndex) ==
    InitialBackoff * Pow(BackoffMultiplier, attemptIndex)

CalculateBackoff(attemptIndex) ==
    LET backoff == InitialBackoff * Pow(BackoffMultiplier, attemptIndex)
    IN  IF backoff > MaxBackoff THEN MaxBackoff ELSE backoff

(***************************************************************************)
(* IsRetryableError (monitor.go).                                          *)
(***************************************************************************)
RetryableStatusCodesAll5xx ==
    {429} \cup 500..599

RetryableStatusCodes ==
    {429, 500, 502, 503, 504}

IsRetryableError(err, statusCode) ==
    IF ~err.isNil
    THEN IF \/ Contains(err.msg, NeedleMarshal)
            \/ Contains(err.msg, NeedleInvalid)
            \/ Contains(err.msg, NeedleCtxCancelled)
         THEN FALSE
         ELSE TRUE
    ELSE statusCode \in RetryableStatusCodes

(***************************************************************************)
(* determineStatus (monitor.go).                                           *)
(***************************************************************************)
determineStatusStrictlySlower(statusCode, responseTime) ==
    CASE statusCode >= 200 /\ statusCode < 300 ->
             IF responseTime > ThresholdAccept THEN StatusDegraded ELSE StatusUp
      [] statusCode >= 300 /\ statusCode < 400 -> StatusUp
      [] statusCode >= 400 /\ statusCode < 500 -> StatusDegraded
      [] OTHER -> StatusDown

determineStatus(statusCode, responseTime) ==
    CASE statusCode >= 200 /\ statusCode < 300 ->
             IF responseTime >= ThresholdAccept THEN StatusDegraded ELSE StatusUp
      [] statusCode >= 300 /\ statusCode < 400 -> StatusUp
      [] statusCode >= 400 /\ statusCode < 500 -> StatusDegraded
      [] OTHER -> StatusDown

(***************************************************************************)
(* HealthCheckResult values.                                               *)
(***************************************************************************)
ZeroResult ==
    [Domain |-> <<>>, URL |-> <<>>, Status |-> "", StatusCode |-> 0,
     ResponseTime |-> 0, ErrorMessage |-> <<>>]

RateLimiterResultNoStatus(domain, err) ==
    [ZeroResult EXCEPT !.Domain = domain, !.URL = domain,
                       !.ErrorMessage = MsgRateLimiter \o err.msg]

\* the result CheckDomain returns when RateLimiter.Wait fails
RateLimiterResult(domain, err) ==
    [ZeroResult EXCEPT !.Domain = domain, !.URL = domain,
                       !.Status = StatusDown,
                       !.ErrorMessage = MsgRateLimiter \o err.msg]

\* checkURL: the domain with "https://" prepended unless it has a scheme
CheckURL(domain) ==
    IF ~HasPrefix(domain, HttpPrefix) /\ ~HasPrefix(domain, HttpsPrefix)
    THEN HttpsPrefix \o domain
    ELSE domain

\* the fresh `result` of one attempt, after result.URL is set
NewResult(domain) ==
    [ZeroResult EXCEPT !.Domain = domain, !.URL = CheckURL(domain)]

(***************************************************************************)
(* float64 values of the report are kept as exact fractions <<num, den>>   *)
(* in lowest terms (den > 0); rounding of the float64 operations is not    *)
(* modelled.                                                               *)
(***************************************************************************)
RECURSIVE Gcd(_, _)
Gcd(a, b) ==
    IF b = 0 THEN a ELSE Gcd(b, a % b)

Rat(n, d) ==
    IF n = 0 THEN <<0, 1>> ELSE <<n \div Gcd(n, d), d \div Gcd(n, d)>>

RatDiv(x, y) ==
    Rat(x[1] * y[2], x[2] * y[1])

RatMul(x, y) ==
    Rat(x[1] * y[1], x[2] * y[2])

Float(n) ==
    <<n, 1>>

(***************************************************************************)
(* generateReport (monitor.go).                                            *)
(***************************************************************************)
RECURSIVE CountStatus(_, _)
CountStatus(rs, status) ==
    IF rs = <<>> THEN 0
    ELSE (IF Head(rs).Status = status THEN 1 ELSE 0) + CountStatus(Tail(rs), status)

RECURSIVE TotalLatency(_)
TotalLatency(rs) ==
    IF rs = <<>> THEN 0 ELSE Head(rs).ResponseTime + TotalLatency(Tail(rs))

UptimePercentOfIntDiv(upCount, n) ==
    IF n > 0 THEN RatMul(Float(upCount \div n), Float(100)) ELSE Float(0)

\* uptimePercent: float64(upCount) / float64(len(results)) * 100, or 0
UptimePercentOf(upCount, n) ==
    IF n > 0 THEN RatMul(RatDiv(Float(upCount), Float(n)), Float(100)) ELSE Float(0)

generateReport(rs) ==
    [TotalChecks    |-> Len(rs),
     Uptime         |-> CountStatus(rs, StatusUp),
     Downtime       |-> CountStatus(rs, StatusDown),
     Degraded       |-> CountStatus(rs, StatusDegraded),
     UptimePercent  |-> UptimePercentOf(CountStatus(rs, StatusUp), Len(rs)),
     AverageLatency |-> IF Len(rs) > 0
                        THEN RatDiv(Float(TotalLatency(rs)), Float(Len(rs)))
                        ELSE Float(0),
     Results        |-> rs]

NoReport ==
    [TotalChecks |-> -1, Uptime |-> 0, Downtime |-> 0, Degraded |-> 0,
     UptimePercent |-> Float(0), AverageLatency |-> Float(0), Results |-> <<>>]

(***************************************************************************)
(* The environment: configured domains, what parsing their URL gives and   *)
(* what one HTTP probe of them can give.                                   *)
(***************************************************************************)
DomainPool ==
    << <<"a">>, <<"[">>, <<"b">>, <<"%">>, <<"c">> >>

Domains ==
    SubSeq(DomainPool, 1, NumDomains)

\* single-domain configurations explored in depth by SpecCheck
DeepDomains ==
    { <<"x">>, <<"%">>, <<"[">> }

\* err of http.NewRequestWithContext(ctx, "GET", checkURL, nil): url.Parse
\* rejects a bad escape and an unclosed IPv6 bracket
NewRequestError(domain) ==
    IF Contains(domain, <<"%">>)
    THEN UrlError(MsgParse, CheckURL(domain), MsgInvalidEscape)
    ELSE IF Contains(domain, <<"[">>)
    THEN UrlError(MsgParse, CheckURL(domain), MsgMissingBracket)
    ELSE NilErr

\* inner errors m.client.Do can return while the context is active
TransportErrors(domain) ==
    IF domain = <<"x">>
    THEN {MsgConnRefused, MsgNoSuchHost, MsgClientTimeout, MsgInvalidHeader,
          MsgTooManyRedirects}
    ELSE IF domain = <<"u">>
    THEN {}
    ELSE {MsgConnRefused}

\* (status code, response time in ms) pairs a response can carry
Responses(domain) ==
    IF domain = <<"x">>
    THEN ({200} \X {500, 2999, 3000, 3500})
         \cup ({100, 301, 404, 429, 500, 501, 503} \X {500})
    ELSE IF domain = <<"u">>
    THEN {<<200, 500>>}
    ELSE {<<200, 500>>, <<429, 500>>}

\* err of m.client.Do(req): the context's error once the context is done
DoErrors(domain, c) ==
    IF c = "active"
    THEN {UrlError(MsgGet, CheckURL(domain), e) : e \in TransportErrors(domain)}
    ELSE {UrlError(MsgGet, CheckURL(domain), CtxErr(c).msg)}

ErrorResponseTime ==
    500

(***************************************************************************)
(* Initial state: RunCheck has allocated results, wg and semaphore.        *)
(***************************************************************************)
\* per call of CheckDomain: tokens obtained from the rate limiter, requests
\* handed to m.client.Do, backoff selects entered, and what the last attempt
\* observed (status, resp.StatusCode, duration); NoProbe before any attempt
NoProbe ==
    [Status |-> "", StatusCode |-> 0, ResponseTime |-> 0]

ZeroStats ==
    [tokens |-> 0, requests |-> 0, sleeps |-> 0, seen |-> NoProbe]

Tasks ==
    1..Len(domains)

\* no error value yet: RunCheck has not returned
NoError ==
    [isNil |-> FALSE, msg |-> <<>>]

\* main has not got past RunCheck
MainIdle ==
    /\ mpc = "idle"
    /\ cfg = [apiURL |-> <<>>, slack |-> FALSE, discord |-> FALSE]
    /\ saveErr = NilErr
    /\ submitErr = NilErr
    /\ subAttempt = 0
    /\ lastErr = NilErr
    /\ subStatus = 0
    /\ posts = 0
    /\ slackCalls = 0
    /\ discordCalls = 0
    /\ emails = 0
    /\ exitCode = -1
    /\ notifyErrs = {}

\* rate.NewLimiter(rate.Limit(RequestsPerSecond), BurstSize): a full bucket
LimiterIdle ==
    /\ bucket = <<BurstSize>>
    /\ clock = 0
    /\ window = [elapsed |-> 0, grants |-> 0]

NoRequest ==
    [stage |-> "none", header |-> <<>>, present |-> FALSE, status |-> 0]

NoRecord ==
    [count |-> 0, resetAt |-> 0]

NoPeriod ==
    [open |-> FALSE, start |-> 0, admitted |-> 0]

MaxCallers ==
    3

\* the clients that call generateApiKey
Callers ==
    1..MaxCallers

\* generateApiKey has not been called
NotCalled ==
    [pc |-> "idle", outcome |-> "none"]

\* the server has started: no key stored, no request seen
ServerIdle ==
    /\ keys = {}
    /\ gen = [c \in Callers |-> NotCalled]
    /\ req = NoRequest
    /\ rl = NoRecord
    /\ now = 0
    /\ period = NoPeriod

InitWith(ds) ==
    /\ domains = ds
    /\ ctx = "active"
    /\ rpc = "spawn"
    /\ spawned = 0
    /\ wg = 0
    /\ semaphore = 0
    /\ pc = [i \in 1..Len(ds) |-> "none"]
    /\ attempt = [i \in 1..Len(ds) |-> 0]
    /\ result = [i \in 1..Len(ds) |-> ZeroResult]
    /\ lastResult = [i \in 1..Len(ds) |-> ZeroResult]
    /\ results = [i \in 1..Len(ds) |-> ZeroResult]
    /\ report = NoReport
    /\ stats = [i \in 1..Len(ds) |-> ZeroStats]
    /\ runErr = NoError
    /\ MainIdle
    /\ LimiterIdle
    /\ ServerIdle

NoCall ==
    [fn |-> "none", args |-> <<>>, ret |-> <<>>, done |-> TRUE]

Init ==
    /\ InitWith(Domains)
    /\ call = NoCall

InitCheck ==
    /\ \E d \in DeepDomains : InitWith(<<d>>)
    /\ call = NoCall

(***************************************************************************)
(* The run context is cancelled or passes its deadline.                    *)
(***************************************************************************)
CtxDone ==
    /\ ctx = "active"
    /\ rpc # "returned" \/ mpc \notin {"idle", "exited"}
    /\ ctx' \in {"canceled", "deadline"}
    /\ UNCHANGED <<domains, rpc, spawned, wg, semaphore, pc, attempt, result,
                   lastResult, results, report, call, stats,
                   runErr, mainVars, limVars, srvVars>>

(***************************************************************************)
(* RunCheck.                                                               *)
(***************************************************************************)
SlotIndexCompletionOrder(index) ==
    Cardinality({j \in DOMAIN pc : pc[j] \in {"stored", "released", "done"}}) + 1

\* the slot goroutine `index` writes
SlotIndex(index) ==
    index

SemaphoreHasRoomOffByOne ==
    semaphore <= Concurrent

\* `semaphore <- struct{}{}` can proceed
SemaphoreHasRoom ==
    semaphore < Concurrent

WaitGroupZeroNoWait ==
    TRUE

\* wg.Wait() can return
WaitGroupZero ==
    wg = 0

RangeDoneAfterFirst ==
    spawned >= 1

\* `for i, domain := range m.config.Domains` has gone through every domain
RangeDone ==
    spawned = Len(domains)

\* one iteration of the loop: wg.Add(1); go func(i, domain)
Spawn ==
    /\ rpc = "spawn"
    /\ ~RangeDone
    /\ spawned' = spawned + 1
    /\ wg' = wg + 1
    /\ pc' = [pc EXCEPT ![spawned + 1] = "acquire"]
    /\ UNCHANGED <<domains, ctx, rpc, semaphore, attempt, result, lastResult,
                   results, report, call, stats,
                   runErr, mainVars, limVars, srvVars>>

LoopEnd ==
    /\ rpc = "spawn"
    /\ RangeDone
    /\ rpc' = "wait"
    /\ UNCHANGED <<domains, ctx, spawned, wg, semaphore, pc, attempt, result,
                   lastResult, results, report, call, stats,
                   runErr, mainVars, limVars, srvVars>>

WgWait ==
    /\ rpc = "wait"
    /\ WaitGroupZero
    /\ rpc' = "report"
    /\ UNCHANGED <<domains, ctx, spawned, wg, semaphore, pc, attempt, result,
                   lastResult, results, report, call, stats,
                   runErr, mainVars, limVars, srvVars>>

RunCheckErrorOnDown(rs) ==
    IF \E i \in 1..Len(rs) : rs[i].Status = StatusDown
    THEN Err(MsgRequestFailed)
    ELSE NilErr

\* the error RunCheck returns next to the report: return report, nil
RunCheckError(rs) ==
    NilErr

GenerateReport ==
    /\ rpc = "report"
    /\ report' = generateReport(results)
    /\ runErr' = RunCheckError(results)
    /\ rpc' = "returned"
    /\ UNCHANGED <<domains, ctx, spawned, wg, semaphore, pc, attempt, result,
                   lastResult, results, call, stats, mainVars, limVars, srvVars>>

(***************************************************************************)
(* The goroutine of domain i and the CheckDomain call it makes.            *)
(***************************************************************************)
SemAcquire(i) ==
    /\ pc[i] = "acquire"
    /\ SemaphoreHasRoom
    /\ semaphore' = semaphore + 1
    /\ pc' = [pc EXCEPT ![i] = "limiter"]
    /\ UNCHANGED <<domains, ctx, rpc, spawned, wg, attempt, result, lastResult,
                   results, report, call, stats,
                   runErr, mainVars, limVars, srvVars>>

WaitOnlyBeforeFirstAttempt(att) ==
    att = 0

\* the loop body starts with m.config.RateLimiter.Wait(ctx), on every attempt
WaitsBeforeAttempt(att) ==
    TRUE

RetriesExhaustedOffByOne(att) ==
    att > MaxRetries

\* attempt == retryConfig.MaxRetries
RetriesExhausted(att) ==
    att = MaxRetries

\* the loop condition: attempt <= retryConfig.MaxRetries
LoopContinues(att) ==
    att <= MaxRetries

\* RateLimiter.Wait(ctx) fails / returns nil: it fails once the context is done
WaitFails(i) ==
    WaitsBeforeAttempt(attempt[i]) /\ ctx # "active"

WaitSucceeds(i) ==
    WaitsBeforeAttempt(attempt[i]) => ctx = "active"

\* the call's counters after Wait returned nil
TokenTaken(i) ==
    [stats[i] EXCEPT !.tokens = @ + (IF WaitsBeforeAttempt(attempt[i]) THEN 1 ELSE 0)]

\* what an attempt observed: a response, a failed request, a request that
\* could not be created
ObservedResponse(statusCode, responseTime) ==
    [Status |-> determineStatus(statusCode, responseTime),
     StatusCode |-> statusCode, ResponseTime |-> responseTime]

ObservedFailure ==
    [Status |-> StatusDown, StatusCode |-> 0, ResponseTime |-> ErrorResponseTime]

ObservedCreateFailure ==
    [Status |-> StatusDown, StatusCode |-> 0, ResponseTime |-> 0]

\* CheckDomain returns r and the goroutine stores it: results[index] = r;
\* sn is what the call's last attempt observed
ReturnSeen(i, r, sn) ==
    /\ results' = [results EXCEPT ![SlotIndex(i)] = r]
    /\ pc' = [pc EXCEPT ![i] = "stored"]
    /\ attempt' = [attempt EXCEPT ![i] = 0]
    /\ result' = [result EXCEPT ![i] = ZeroResult]
    /\ lastResult' = [lastResult EXCEPT ![i] = ZeroResult]
    /\ stats' = [stats EXCEPT ![i] = [ZeroStats EXCEPT !.seen = sn]]

\* a return that follows no new attempt
Return(i, r) ==
    ReturnSeen(i, r, stats[i].seen)

LastResultStale(prev, r) ==
    prev

\* lastResult = result, after every attempt
LastResultAfter(prev, r) ==
    r

\* the attempt failed with a retryable outcome and attempts remain: the
\* goroutine enters the select on ctx.Done() and time.After(backoff).  When
\* ctx.Done() is already closed on entry only that case is ready ("backoffCtxDone");
\* when the context ends during the sleep both cases can be ready and select
\* picks either.
Backoff(i, r, st) ==
    /\ pc' = [pc EXCEPT ![i] = IF ctx = "active" THEN "backoff" ELSE "backoffCtxDone"]
    /\ result' = [result EXCEPT ![i] = r]
    /\ lastResult' = [lastResult EXCEPT ![i] = LastResultAfter(lastResult[i], r)]
    /\ stats' = [stats EXCEPT ![i] = [st EXCEPT !.sleeps = @ + 1]]
    /\ UNCHANGED <<attempt, results>>

RateLimiterResultAsRequestFailure(domain, err) ==
    [ZeroResult EXCEPT !.Domain = domain, !.URL = domain,
                       !.Status = StatusDown,
                       !.ErrorMessage = MsgRequestFailed \o err.msg]

\* what CheckDomain returns when Wait fails
WaitFailedResult(domain, err) ==
    RateLimiterResult(domain, err)

\* m.config.RateLimiter.Wait(ctx) fails: the context is done
RateLimiterWaitFail(i) ==
    /\ pc[i] = "limiter"
    /\ WaitFails(i)
    /\ Return(i, WaitFailedResult(domains[i], CtxErr(ctx)))
    /\ UNCHANGED <<domains, ctx, rpc, spawned, wg, semaphore, report, call,
                   runErr, mainVars, limVars, srvVars>>

\* the result of an attempt whose request could not be created
CreateFailedResult(domain, err) ==
    [NewResult(domain) EXCEPT !.Status = StatusDown,
                              !.ErrorMessage = MsgCreateFailed \o err.msg]

\* Wait succeeds, http.NewRequestWithContext fails
AttemptNewRequestFail(i) ==
    /\ pc[i] = "limiter"
    /\ WaitSucceeds(i)
    /\ ~NewRequestError(domains[i]).isNil
    /\ LET err == NewRequestError(domains[i])
           r == CreateFailedResult(domains[i], err)
       IN  IF ~IsRetryableError(err, 0) \/ RetriesExhausted(attempt[i])
           THEN ReturnSeen(i, r, ObservedCreateFailure)
           ELSE Backoff(i, r, [TokenTaken(i) EXCEPT !.seen = ObservedCreateFailure])
    /\ UNCHANGED <<domains, ctx, rpc, spawned, wg, semaphore, report, call,
                   runErr, mainVars, limVars, srvVars>>

\* Wait succeeds, the request is created and m.client.Do(req) is called
AttemptStart(i) ==
    /\ pc[i] = "limiter"
    /\ WaitSucceeds(i)
    /\ NewRequestError(domains[i]).isNil
    /\ pc' = [pc EXCEPT ![i] = "request"]
    /\ result' = [result EXCEPT ![i] = NewResult(domains[i])]
    /\ stats' = [stats EXCEPT ![i] = [TokenTaken(i) EXCEPT !.requests = @ + 1]]
    /\ UNCHANGED <<domains, ctx, rpc, spawned, wg, semaphore, attempt,
                   lastResult, results, report, call,
                   runErr, mainVars, limVars, srvVars>>

RequestFailedResultNoMessage(r, err) ==
    [r EXCEPT !.ResponseTime = ErrorResponseTime,
              !.Status = StatusDown]

\* the result of an attempt whose request failed
RequestFailedResult(r, err) ==
    [r EXCEPT !.ResponseTime = ErrorResponseTime,
              !.Status = StatusDown,
              !.ErrorMessage = MsgRequestFailed \o err.msg]

\* m.client.Do(req) returns an error
ProbeError(i) ==
    /\ pc[i] = "request"
    /\ \E err \in DoErrors(domains[i], ctx) :
           LET r == RequestFailedResult(result[i], err)
           IN  IF ~IsRetryableError(err, 0) \/ RetriesExhausted(attempt[i])
               THEN ReturnSeen(i, r, ObservedFailure)
               ELSE Backoff(i, r, [stats[i] EXCEPT !.seen = ObservedFailure])
    /\ UNCHANGED <<domains, ctx, rpc, spawned, wg, semaphore, report, call,
                   runErr, mainVars, limVars, srvVars>>

\* the result of an attempt that received a response
ResponseResult(r, statusCode, responseTime) ==
    [r EXCEPT !.ResponseTime = responseTime,
              !.StatusCode = statusCode,
              !.Status = determineStatus(statusCode, responseTime)]

ReturnsAtOnceOnlyWhenUp(r) ==
    r.Status = StatusUp

\* the two early returns after a response: the status is Up, or the status
\* code is not retryable
ReturnsAtOnce(r) ==
    \/ r.Status = StatusUp
    \/ ~IsRetryableError(NilErr, r.StatusCode)

\* m.client.Do(req) returns a response
ProbeResponse(i) ==
    /\ pc[i] = "request"
    /\ ctx = "active"
    /\ \E o \in Responses(domains[i]) :
           LET r == ResponseResult(result[i], o[1], o[2])
               sn == ObservedResponse(o[1], o[2])
           IN  IF ReturnsAtOnce(r)
               THEN ReturnSeen(i, r, sn)
               ELSE IF RetriesExhausted(attempt[i])
               THEN \* break; return lastResult
                    ReturnSeen(i, LastResultAfter(lastResult[i], r), sn)
               ELSE Backoff(i, r, [stats[i] EXCEPT !.seen = sn])
    /\ UNCHANGED <<domains, ctx, rpc, spawned, wg, semaphore, report, call,
                   runErr, mainVars, limVars, srvVars>>

\* the status CheckDomain returns when ctx.Done() wins the backoff select
CancelledStatus(r) ==
    r.Status

\* select: case <-time.After(backoff): attempt++ and the loop condition
BackoffElapsed(i) ==
    /\ pc[i] = "backoff"
    /\ IF LoopContinues(attempt[i] + 1)
       THEN /\ attempt' = [attempt EXCEPT ![i] = attempt[i] + 1]
            /\ pc' = [pc EXCEPT ![i] = "limiter"]
            /\ result' = [result EXCEPT ![i] = ZeroResult]
            /\ UNCHANGED <<lastResult, results, stats>>
       ELSE Return(i, lastResult[i])
    /\ UNCHANGED <<domains, ctx, rpc, spawned, wg, semaphore, report, call,
                   runErr, mainVars, limVars, srvVars>>

\* select: case <-ctx.Done(): return result with the cancellation message
BackoffCancelled(i) ==
    /\ pc[i] \in {"backoff", "backoffCtxDone"}
    /\ ctx # "active"
    /\ Return(i, [result[i] EXCEPT !.Status = CancelledStatus(result[i]),
                                   !.ErrorMessage = MsgCtxRetry])
    /\ UNCHANGED <<domains, ctx, rpc, spawned, wg, semaphore, report, call,
                   runErr, mainVars, limVars, srvVars>>

PermitsAfterNoReceive(held) ==
    held

\* the permits held once the deferred `<-semaphore` has run
PermitsAfterReceive(held) ==
    held - 1

\* deferred: <-semaphore
SemRelease(i) ==
    /\ pc[i] = "stored"
    /\ semaphore' = PermitsAfterReceive(semaphore)
    /\ pc' = [pc EXCEPT ![i] = "released"]
    /\ stats' = [stats EXCEPT ![i] = ZeroStats]
    /\ UNCHANGED <<domains, ctx, rpc, spawned, wg, attempt, result, lastResult,
                   results, report, call,
                   runErr, mainVars, limVars, srvVars>>

\* deferred: wg.Done()
WgDone(i) ==
    /\ pc[i] = "released"
    /\ wg' = wg - 1
    /\ pc' = [pc EXCEPT ![i] = "done"]
    /\ UNCHANGED <<domains, ctx, rpc, spawned, semaphore, attempt, result,
                   lastResult, results, report, call, stats,
                   runErr, mainVars, limVars, srvVars>>

Next ==
    \/ CtxDone
    \/ Spawn
    \/ LoopEnd
    \/ WgWait
    \/ GenerateReport
    \/ \E i \in Tasks : SemAcquire(i)
    \/ \E i \in Tasks : RateLimiterWaitFail(i)
    \/ \E i \in Tasks : AttemptNewRequestFail(i)
    \/ \E i \in Tasks : AttemptStart(i)
    \/ \E i \in Tasks : ProbeError(i)
    \/ \E i \in Tasks : ProbeResponse(i)
    \/ \E i \in Tasks : BackoffElapsed(i)
    \/ \E i \in Tasks : BackoffCancelled(i)
    \/ \E i \in Tasks : SemRelease(i)
    \/ \E i \in Tasks : WgDone(i)

Spec ==
    Init /\ [][Next]_vars

SpecCheck ==
    InitCheck /\ [][Next]_vars

\* the steps of the goroutine of domain i
TaskStep(i) ==
    \/ SemAcquire(i)
    \/ RateLimiterWaitFail(i)
    \/ AttemptNewRequestFail(i)
    \/ AttemptStart(i)
    \/ ProbeError(i)
    \/ ProbeResponse(i)
    \/ BackoffElapsed(i)
    \/ BackoffCancelled(i)
    \/ SemRelease(i)
    \/ WgDone(i)

\* the Go scheduler runs every runnable goroutine; every rate-limiter wait,
\* every request (client timeout) and every timer of a backoff select ends.
\* Nothing is assumed about the context: it may never be cancelled.
Fairness ==
    /\ WF_vars(Spawn)
    /\ WF_vars(LoopEnd)
    /\ WF_vars(WgWait)
    /\ WF_vars(GenerateReport)
    /\ \A i \in 1..NumDomains : WF_vars(TaskStep(i))

\* the domain list of the fair runs: a domain whose request cannot be
\* created, retried to the last attempt, and healthy domains ("u": always
\* answered 200 in time) competing with it for the permits
FairPool ==
    << <<"[">>, <<"u">>, <<"u">>, <<"u">>, <<"u">> >>

InitFair ==
    /\ InitWith(SubSeq(FairPool, 1, NumDomains))
    /\ call = NoCall

SpecFair ==
    InitFair /\ [][Next]_vars /\ Fairness

(***************************************************************************)
(* Direct calls of the pure functions, on inputs drawn from bounded sets.  *)
(***************************************************************************)
StatusCodeInputs ==
    0..MaxStatusCode

ResponseTimeInputs ==
    {0, 500, 999, 1000, 1500, 2999, 3000, 3500}

\* error values the callers can pass: every error of the probes above
ErrInputs ==
    UNION {DoErrors(<<"x">>, c) : c \in {"active", "canceled", "deadline"}}
    \cup {NewRequestError(d) : d \in {<<"%">>, <<"[">>}}

\* one result of each status, as CheckDomain builds them
ResultInputs ==
    {ResponseResult(NewResult(<<"a">>), 200, 500),
     ResponseResult(NewResult(<<"a">>), 404, 500),
     RequestFailedResult(NewResult(<<"a">>),
                         UrlError(MsgGet, CheckURL(<<"a">>), MsgConnRefused))}

ResultSeqInputs ==
    UNION {[1..n -> ResultInputs] : n \in 0..MaxResults}

AttemptInputs ==
    0..MaxAttemptInput

\* the calls not yet made: function and arguments
CallInputs ==
    {[fn |-> "determineStatus", args |-> <<c, t>>, ret |-> <<>>, done |-> FALSE] :
         c \in StatusCodeInputs, t \in ResponseTimeInputs}
    \cup {[fn |-> "IsRetryableError", args |-> <<NilErr, c>>, ret |-> <<>>, done |-> FALSE] :
         c \in StatusCodeInputs}
    \cup {[fn |-> "IsRetryableError", args |-> <<e, 0>>, ret |-> <<>>, done |-> FALSE] :
         e \in ErrInputs}
    \cup {[fn |-> "generateReport", args |-> <<rs>>, ret |-> <<>>, done |-> FALSE] :
         rs \in ResultSeqInputs}
    \cup {[fn |-> "CalculateBackoff", args |-> <<k>>, ret |-> <<>>, done |-> FALSE] :
         k \in AttemptInputs}

InitFn ==
    /\ InitWith(<<>>)
    /\ call \in CallInputs

UnchangedRun ==
    UNCHANGED <<domains, ctx, rpc, spawned, wg, semaphore, pc, attempt, result,
                lastResult, results, report, stats,
                   runErr, mainVars, limVars, srvVars>>

CallDetermineStatus ==
    /\ call.fn = "determineStatus" /\ ~call.done
    /\ call' = [call EXCEPT !.ret = determineStatus(call.args[1], call.args[2]),
                            !.done = TRUE]
    /\ UnchangedRun

CallIsRetryableError ==
    /\ call.fn = "IsRetryableError" /\ ~call.done
    /\ call' = [call EXCEPT !.ret = IsRetryableError(call.args[1], call.args[2]),
                            !.done = TRUE]
    /\ UnchangedRun

CallGenerateReport ==
    /\ call.fn = "generateReport" /\ ~call.done
    /\ call' = [call EXCEPT !.ret = generateReport(call.args[1]),
                            !.done = TRUE]
    /\ UnchangedRun

CallCalculateBackoff ==
    /\ call.fn = "CalculateBackoff" /\ ~call.done
    /\ call' = [call EXCEPT !.ret = CalculateBackoff(call.args[1]),
                            !.done = TRUE]
    /\ UnchangedRun

NextFn ==
    \/ CallDetermineStatus
    \/ CallIsRetryableError
    \/ CallGenerateReport
    \/ CallCalculateBackoff

SpecFn ==
    InitFn /\ [][NextFn]_vars

(***************************************************************************)
(* The run's rate limiter under load.  NumReturned checks have returned    *)
(* after MaxRetries + 1 attempts each, Concurrent checks hold the          *)
(* semaphore's slots and loop through their attempts; each attempt takes   *)
(* one token from the bucket, which gains one token per                    *)
(* 1/RequestsPerSecond second, up to BurstSize.                            *)
(***************************************************************************)
LimiterOfOwn(i) ==
    i

\* the limiter goroutine i waits on: m.config.RateLimiter, one for the run
LimiterOf(i) ==
    1

\* tokens the returned checks have taken
TokensUsed ==
    NumReturned * (MaxRetries + 1)

InitLimiter ==
    /\ domains = [i \in 1..(NumReturned + Concurrent) |-> <<"a">>]
    /\ ctx = "active"
    /\ rpc = "wait"
    /\ spawned = NumReturned + Concurrent
    /\ wg = Concurrent
    /\ semaphore = Concurrent
    /\ pc = [i \in 1..(NumReturned + Concurrent) |->
                IF i <= NumReturned THEN "done" ELSE "limiter"]
    /\ attempt = [i \in 1..(NumReturned + Concurrent) |-> 0]
    /\ result = [i \in 1..(NumReturned + Concurrent) |-> ZeroResult]
    /\ lastResult = [i \in 1..(NumReturned + Concurrent) |-> ZeroResult]
    /\ results = [i \in 1..(NumReturned + Concurrent) |->
                     IF i <= NumReturned
                     THEN ResponseResult(NewResult(<<"a">>), 429, ErrorResponseTime)
                     ELSE ZeroResult]
    /\ report = NoReport
    /\ stats = [i \in 1..(NumReturned + Concurrent) |-> ZeroStats]
    /\ runErr = NoError
    /\ call = NoCall
    /\ MainIdle
    /\ ServerIdle
    /\ bucket = [l \in 1..(NumReturned + Concurrent) |-> BurstSize - TokensUsed]
    /\ clock = 0
    /\ window = [elapsed |-> 0, grants |-> TokensUsed]

\* 1/RequestsPerSecond second passes: every bucket gains a token, up to
\* BurstSize
Tick ==
    /\ clock < MaxTicks
    /\ clock' = clock + 1
    /\ bucket' = [l \in DOMAIN bucket |->
                     IF bucket[l] < BurstSize THEN bucket[l] + 1 ELSE bucket[l]]
    /\ window' = [window EXCEPT !.elapsed = @ + 1]
    /\ UNCHANGED <<domains, ctx, rpc, spawned, wg, semaphore, pc, attempt,
                   result, lastResult, results, report, call, stats, runErr,
                   mainVars, srvVars>>

\* a new observation interval starts now
RestartWindow ==
    /\ window # [elapsed |-> 0, grants |-> 0]
    /\ window' = [elapsed |-> 0, grants |-> 0]
    /\ UNCHANGED <<domains, ctx, rpc, spawned, wg, semaphore, pc, attempt,
                   result, lastResult, results, report, call, stats, runErr,
                   mainVars, bucket, clock, srvVars>>

\* one iteration of CheckDomain's loop: Wait returns with a token, the
\* request is made and answered; on a retryable answer with attempts left
\* the check sleeps and comes back to Wait, otherwise it returns
LimitedAttempt(i) ==
    /\ pc[i] = "limiter"
    /\ ctx = "active"
    /\ bucket[LimiterOf(i)] > 0
    /\ bucket' = [bucket EXCEPT ![LimiterOf(i)] = @ - 1]
    /\ window' = [window EXCEPT !.grants = @ + 1]
    /\ \E o \in Responses(domains[i]) :
           LET r == ResponseResult(NewResult(domains[i]), o[1], o[2])
           IN  IF IsRetryableError(NilErr, o[1]) /\ ~RetriesExhausted(attempt[i])
               THEN /\ attempt' = [attempt EXCEPT ![i] = @ + 1]
                    /\ UNCHANGED <<pc, result, lastResult, results, stats>>
               ELSE ReturnSeen(i, r, ObservedResponse(o[1], o[2]))
    /\ UNCHANGED <<domains, ctx, rpc, spawned, wg, semaphore, report, call,
                   runErr, mainVars, clock, srvVars>>

NextLimiter ==
    \/ Tick
    \/ RestartWindow
    \/ \E i \in Tasks : LimitedAttempt(i)

SpecLimiter ==
    InitLimiter /\ [][NextLimiter]_vars

(***************************************************************************)
(* main after RunCheck has returned: SaveReport, SubmitToAPI,              *)
(* SendNotifications and os.Exit (main.go, monitor.go).                    *)
(***************************************************************************)
\* strconv of a status code, as fmt's %d prints it
Digit(d) ==
    <<"0", "1", "2", "3", "4", "5", "6", "7", "8", "9">>[d + 1]

Itoa(n) ==
    IF n < 10 THEN <<Digit(n)>>
    ELSE IF n < 100 THEN <<Digit(n \div 10), Digit(n % 10)>>
    ELSE <<Digit(n \div 100), Digit((n \div 10) % 10), Digit(n % 10)>>

\* m.config.APIURL: unset, a well-formed URL, a URL url.Parse rejects
ApiURLs ==
    {<<>>, HttpPrefix \o <<"u">>, HttpPrefix \o <<"%">>}

Configs ==
    [apiURL : ApiURLs, slack : BOOLEAN, discord : BOOLEAN]

\* err of http.NewRequestWithContext(ctx, "POST", m.config.APIURL, body)
ApiRequestError(url) ==
    IF Contains(url, <<"%">>)
    THEN UrlError(MsgParse, url, MsgInvalidEscape)
    ELSE NilErr

\* err of m.client.Do(req) for the submission
ApiDoErrors(url, c) ==
    IF c = "active"
    THEN {UrlError(MsgPost, url, MsgConnRefused)}
    ELSE {UrlError(MsgPost, url, CtxErr(c).msg)}

\* (status code, body) of the collector's answers
ApiResponses ==
    {200, 400, 404, 429, 500, 503} \X {BodyNotFound, BodyInvalidPayload}

\* fmt.Errorf("API submission failed with status %d: %s", code, body)
StatusError(code, body) ==
    Err(MsgSubmitStatus \o Itoa(code) \o MsgColon \o body)

\* fmt.Errorf(prefix + "%w", err)
Wrap(prefix, err) ==
    Err(prefix \o err.msg)

\* the retry decision for a response with status >= 400:
\* IsRetryableError(lastErr, resp.StatusCode), lastErr being the error just built
SubmitIsRetryable(err, statusCode) ==
    IsRetryableError(err, statusCode)

ExitCodeOnAnyIssue(r) ==
    IF r.Downtime > 0 \/ r.Degraded > 0 THEN 1 ELSE 0

\* exitCode := 0; if report.Downtime > 0 { exitCode = 1 }
ExitCodeOf(r) ==
    IF r.Downtime > 0 THEN 1 ELSE 0

HasIssuesDownOnly(r) ==
    r.Downtime # 0

\* the negation of SendNotifications' early return
HasIssues(r) ==
    ~(r.Downtime = 0 /\ r.Degraded = 0)

\* what SaveReport can return: nil, or the wrapped error of os.MkdirAll, of
\* json.MarshalIndent or of os.WriteFile
SaveErrors ==
    {NilErr, Err(MsgMkdirFailed \o MsgPermissionDenied),
     Err(MsgMarshalFailed \o MsgUnsupportedValue),
     Err(MsgWriteFailed \o MsgPermissionDenied)}

SaveEmailsMkdirOnly(err) ==
    IF ~err.isNil /\ HasPrefix(err.msg, MsgMkdirFailed) THEN 1 ELSE 0

\* the SendEmailOnFailure(report, nil) calls SaveReport makes before it
\* returns err: one in each of its three error branches
SaveEmails(err) ==
    IF err.isNil THEN 0 ELSE 1

\* what sendWebhook can return: nil, the error of m.client.Do, or the error
\* built from an answer with status >= 400
WebhookErrors(url, c) ==
    IF c = "active"
    THEN {NilErr, UrlError(MsgPost, url, MsgConnRefused),
          Err(MsgWebhookStatus \o Itoa(500) \o MsgColon \o BodyNotFound)}
    ELSE {UrlError(MsgPost, url, CtxErr(c).msg)}

SlackURL ==
    HttpsPrefix \o <<"s">>

DiscordURL ==
    HttpsPrefix \o <<"d">>

\* the results RunCheck hands to main: one per configured domain
MainResultInputs ==
    {rs \in ResultSeqInputs : Len(rs) \in 1..MaxMainResults}

InitMain ==
    /\ \E rs \in MainResultInputs :
           /\ domains = [i \in 1..Len(rs) |-> rs[i].Domain]
           /\ pc = [i \in 1..Len(rs) |-> "done"]
           /\ attempt = [i \in 1..Len(rs) |-> 0]
           /\ result = [i \in 1..Len(rs) |-> ZeroResult]
           /\ lastResult = [i \in 1..Len(rs) |-> ZeroResult]
           /\ stats = [i \in 1..Len(rs) |-> ZeroStats]
           /\ spawned = Len(rs)
           /\ results = rs
           /\ report = generateReport(rs)
    /\ ctx = "active"
    /\ rpc = "returned"
    /\ wg = 0
    /\ semaphore = 0
    /\ runErr = NilErr
    /\ call = NoCall
    /\ mpc = "save"
    /\ cfg \in Configs
    /\ saveErr = NilErr
    /\ submitErr = NilErr
    /\ subAttempt = 0
    /\ lastErr = NilErr
    /\ subStatus = 0
    /\ posts = 0
    /\ slackCalls = 0
    /\ discordCalls = 0
    /\ notifyErrs = {}
    /\ emails = 0
    /\ exitCode = -1
    /\ LimiterIdle
    /\ ServerIdle

UnchangedCheck ==
    UNCHANGED <<domains, ctx, rpc, spawned, wg, semaphore, pc, attempt, result,
                lastResult, results, report, call, stats, runErr, limVars, srvVars>>

\* SaveReport: MkdirAll, MarshalIndent or WriteFile can fail; each failure
\* calls SendEmailOnFailure(report, nil) once and returns the error, which
\* main logs
SaveReport ==
    /\ mpc = "save"
    /\ \E err \in SaveErrors :
           /\ saveErr' = err
           /\ emails' = emails + SaveEmails(err)
    /\ mpc' = "submit"
    /\ UNCHANGED <<cfg, submitErr, subAttempt, lastErr, subStatus, posts,
                   slackCalls, discordCalls, exitCode>>
    /\ UNCHANGED notifyErrs
    /\ UnchangedCheck

\* SubmitToAPI returns err to main
SubmitReturn(err) ==
    /\ submitErr' = err
    /\ mpc' = "submitted"

\* SubmitToAPI enters the select on ctx.Done() and time.After(backoff)
SubmitBackoff ==
    mpc' = IF ctx = "active" THEN "subBackoff" ELSE "subBackoffCtxDone"

\* SubmitToAPI: m.config.APIURL == ""
SubmitNoURL ==
    /\ mpc = "submit"
    /\ cfg.apiURL = <<>>
    /\ SubmitReturn(Err(MsgNoBackendURL))
    /\ UNCHANGED <<cfg, saveErr, subAttempt, lastErr, subStatus, posts,
                   slackCalls, discordCalls, emails, exitCode>>
    /\ UNCHANGED notifyErrs
    /\ UnchangedCheck

\* SubmitToAPI: the loop starts
SubmitBegin ==
    /\ mpc = "submit"
    /\ cfg.apiURL # <<>>
    /\ mpc' = "subWait"
    /\ subAttempt' = 0
    /\ UNCHANGED <<cfg, saveErr, submitErr, lastErr, subStatus, posts,
                   slackCalls, discordCalls, emails, exitCode>>
    /\ UNCHANGED notifyErrs
    /\ UnchangedCheck

\* RateLimiter.Wait(ctx) fails
SubmitWaitFail ==
    /\ mpc = "subWait"
    /\ ctx # "active"
    /\ SubmitReturn(Wrap(MsgSubmitRateLimiter, CtxErr(ctx)))
    /\ UNCHANGED <<cfg, saveErr, subAttempt, lastErr, subStatus, posts,
                   slackCalls, discordCalls, emails, exitCode>>
    /\ UNCHANGED notifyErrs
    /\ UnchangedCheck

\* Wait succeeds, http.NewRequestWithContext fails
SubmitNewRequestFail ==
    /\ mpc = "subWait"
    /\ ctx = "active"
    /\ ~ApiRequestError(cfg.apiURL).isNil
    /\ LET e == Wrap(MsgSubmitCreateFailed, ApiRequestError(cfg.apiURL))
       IN  /\ lastErr' = e
           /\ IF subAttempt = MaxRetries
              THEN SubmitReturn(Wrap(MsgSubmitAfterAttempts, e))
              ELSE SubmitBackoff /\ UNCHANGED submitErr
    /\ UNCHANGED <<cfg, saveErr, subAttempt, subStatus, posts,
                   slackCalls, discordCalls, emails, exitCode>>
    /\ UNCHANGED notifyErrs
    /\ UnchangedCheck

\* Wait succeeds, the request is created and m.client.Do(req) is called
SubmitAttemptStart ==
    /\ mpc = "subWait"
    /\ ctx = "active"
    /\ ApiRequestError(cfg.apiURL).isNil
    /\ mpc' = "subRequest"
    /\ posts' = posts + 1
    /\ UNCHANGED <<cfg, saveErr, submitErr, subAttempt, lastErr, subStatus,
                   slackCalls, discordCalls, emails, exitCode>>
    /\ UNCHANGED notifyErrs
    /\ UnchangedCheck

\* m.client.Do(req) returns an error
SubmitDoError ==
    /\ mpc = "subRequest"
    /\ \E err \in ApiDoErrors(cfg.apiURL, ctx) :
           LET e == Wrap(MsgSubmitFailed, err)
           IN  /\ lastErr' = e
               /\ subStatus' = 0
               /\ IF subAttempt = MaxRetries
                  THEN SubmitReturn(Wrap(MsgSubmitAfterAttempts, e))
                  ELSE SubmitBackoff /\ UNCHANGED submitErr
    /\ UNCHANGED <<cfg, saveErr, subAttempt, posts,
                   slackCalls, discordCalls, emails, exitCode>>
    /\ UNCHANGED notifyErrs
    /\ UnchangedCheck

\* m.client.Do(req) returns a response
SubmitResponse ==
    /\ mpc = "subRequest"
    /\ ctx = "active"
    /\ \E o \in ApiResponses :
           /\ subStatus' = o[1]
           /\ IF o[1] >= 400
              THEN LET e == StatusError(o[1], o[2])
                   IN  /\ lastErr' = e
                       /\ IF ~SubmitIsRetryable(e, o[1])
                          THEN SubmitReturn(e)
                          ELSE IF subAttempt < MaxRetries
                          THEN SubmitBackoff /\ UNCHANGED submitErr
                          ELSE SubmitReturn(e)
              ELSE /\ SubmitReturn(NilErr)
                   /\ UNCHANGED lastErr
    /\ UNCHANGED <<cfg, saveErr, subAttempt, posts,
                   slackCalls, discordCalls, emails, exitCode>>
    /\ UNCHANGED notifyErrs
    /\ UnchangedCheck

\* select: case <-time.After(backoff): continue
SubmitBackoffElapsed ==
    /\ mpc = "subBackoff"
    /\ subAttempt' = subAttempt + 1
    /\ mpc' = "subWait"
    /\ UNCHANGED <<cfg, saveErr, submitErr, lastErr, subStatus, posts,
                   slackCalls, discordCalls, emails, exitCode>>
    /\ UNCHANGED notifyErrs
    /\ UnchangedCheck

\* select: case <-ctx.Done()
SubmitBackoffCancelled ==
    /\ mpc \in {"subBackoff", "subBackoffCtxDone"}
    /\ ctx # "active"
    /\ SubmitReturn(Wrap(MsgSubmitCtxRetry, CtxErr(ctx)))
    /\ UNCHANGED <<cfg, saveErr, subAttempt, lastErr, subStatus, posts,
                   slackCalls, discordCalls, emails, exitCode>>
    /\ UNCHANGED notifyErrs
    /\ UnchangedCheck

\* main: on a submission error, SendEmailOnFailure(report, &subject); then
\* SendNotifications is entered and returns at once when nothing is down or
\* degraded
AfterSubmit ==
    /\ mpc = "submitted"
    /\ emails' = IF submitErr.isNil THEN emails ELSE emails + 1
    /\ mpc' = IF HasIssues(report) THEN "slack" ELSE "exit"
    /\ UNCHANGED <<cfg, saveErr, submitErr, subAttempt, lastErr, subStatus,
                   posts, slackCalls, discordCalls, exitCode>>
    /\ UNCHANGED notifyErrs
    /\ UnchangedCheck

\* SendNotifications: sendSlackNotification when a Slack webhook is set; its
\* error is logged
NotifySlack ==
    /\ mpc = "slack"
    /\ IF cfg.slack
       THEN /\ slackCalls' = slackCalls + 1
            /\ \E err \in WebhookErrors(SlackURL, ctx) :
                   notifyErrs' = IF err.isNil THEN notifyErrs
                                 ELSE notifyErrs \cup {"slack"}
       ELSE UNCHANGED <<slackCalls, notifyErrs>>
    /\ mpc' = "discord"
    /\ UNCHANGED <<cfg, saveErr, submitErr, subAttempt, lastErr, subStatus,
                   posts, discordCalls, emails, exitCode>>
    /\ UnchangedCheck

\* SendNotifications: sendDiscordNotification when a Discord webhook is set
NotifyDiscord ==
    /\ mpc = "discord"
    /\ IF cfg.discord
       THEN /\ discordCalls' = discordCalls + 1
            /\ \E err \in WebhookErrors(DiscordURL, ctx) :
                   notifyErrs' = IF err.isNil THEN notifyErrs
                                 ELSE notifyErrs \cup {"discord"}
       ELSE UNCHANGED <<discordCalls, notifyErrs>>
    /\ mpc' = "exit"
    /\ UNCHANGED <<cfg, saveErr, submitErr, subAttempt, lastErr, subStatus,
                   posts, slackCalls, emails, exitCode>>
    /\ UnchangedCheck

\* os.Exit(exitCode)
Exit ==
    /\ mpc = "exit"
    /\ exitCode' = ExitCodeOf(report)
    /\ mpc' = "exited"
    /\ UNCHANGED <<cfg, saveErr, submitErr, subAttempt, lastErr, subStatus,
                   posts, slackCalls, discordCalls, emails>>
    /\ UNCHANGED notifyErrs
    /\ UnchangedCheck

NextMain ==
    \/ CtxDone
    \/ SaveReport
    \/ SubmitNoURL
    \/ SubmitBegin
    \/ SubmitWaitFail
    \/ SubmitNewRequestFail
    \/ SubmitAttemptStart
    \/ SubmitDoError
    \/ SubmitResponse
    \/ SubmitBackoffElapsed
    \/ SubmitBackoffCancelled
    \/ AfterSubmit
    \/ NotifySlack
    \/ NotifyDiscord
    \/ Exit

SpecMain ==
    InitMain /\ [][NextMain]_vars

(***************************************************************************)
(* The companion server: API-key validation of a protected route.          *)
(***************************************************************************)
StrBearer ==
    <<"B","e","a","r","e","r">>

StrBasic ==
    <<"B","a","s","i","c">>

StrLowerBearer ==
    <<"b","e","a","r","e","r">>

KeyPrefix ==
    <<"a","x","h","_">>

Space ==
    <<" ">>

RECURSIVE Reverse(_)
Reverse(str) ==
    IF str = <<>> THEN <<>> ELSE Reverse(Tail(str)) \o <<Head(str)>>

\* createHash('sha256').update(apiKey).digest('hex'): a one-to-one stand-in
\* whose value differs from its argument
Sha256Hex(apiKey) ==
    <<"#">> \o Reverse(apiKey)

\* authHeader.split(' ')
RECURSIVE Split(_)
Split(str) ==
    IF \E k \in 1..Len(str) : str[k] = " "
    THEN LET k == CHOOSE j \in 1..Len(str) :
                      str[j] = " " /\ \A l \in 1..(j - 1) : str[l] # " "
         IN  <<SubSeq(str, 1, k - 1)>> \o Split(SubSeq(str, k + 1, Len(str)))
    ELSE <<str>>

\* API keys clients may send (the random part shortened to one character)
ApiKeys ==
    {KeyPrefix \o <<"a">>, KeyPrefix \o <<"b">>, KeyPrefix \o <<"c">>,
     KeyPrefix, <<"x","y","z">>}

\* a row of the api_keys table
KeyRow(apiKey, active) ==
    [key_hash |-> Sha256Hex(apiKey), is_active |-> active]

\* contents of the api_keys table: empty, one active key, one deactivated
\* key, an active and a deactivated key
KeyTables ==
    {{},
     {KeyRow(KeyPrefix \o <<"a">>, TRUE)},
     {KeyRow(KeyPrefix \o <<"a">>, FALSE)},
     {KeyRow(KeyPrefix \o <<"a">>, TRUE), KeyRow(KeyPrefix \o <<"b">>, FALSE)}}

\* values of the Authorization header: one key per scheme spelling, and
\* the malformed shapes
AuthHeaders ==
    {StrBearer \o Space \o k : k \in ApiKeys}
    \cup {StrLowerBearer \o Space \o KeyPrefix \o <<"a">>,
          StrBasic \o Space \o KeyPrefix \o <<"a">>,
          StrBearer \o Space \o Space \o KeyPrefix \o <<"a">>,
          StrBearer \o Space \o KeyPrefix \o <<"a">> \o Space \o <<"x">>,
          StrBearer \o Space \o Sha256Hex(KeyPrefix \o <<"a">>),
          StrBearer,
          KeyPrefix \o <<"a">>,
          <<>>}

InitAuth ==
    /\ InitWith(<<>>)
    /\ call = NoCall

UnchangedClient ==
    UNCHANGED <<domains, ctx, rpc, spawned, wg, semaphore, pc, attempt, result,
                lastResult, results, report, call, stats, runErr, mainVars,
                limVars>>

\* the operator's dashboard replaces the table's contents
SetKeys ==
    /\ req.stage = "none"
    /\ keys' \in KeyTables \ {keys}
    /\ UNCHANGED <<gen, req, rl, now, period>>
    /\ UnchangedClient

\* a request for a key-protected route arrives, with or without the header
Receive ==
    /\ req.stage = "none"
    /\ \/ req' = [stage |-> "validate", header |-> <<>>, present |-> FALSE,
                   status |-> 0]
       \/ \E h \in AuthHeaders :
              req' = [stage |-> "validate", header |-> h, present |-> TRUE,
                      status |-> 0]
    /\ UNCHANGED <<keys, gen, rl, now, period>>
    /\ UnchangedClient

\* !authHeader: the header is absent or the empty string
HeaderMissing(rq) ==
    ~rq.present \/ rq.header = <<>>

HeaderFormatAnyScheme(parts) ==
    Len(parts) = 2

\* parts.length === 2 && parts[0] === 'Bearer'
HeaderFormatOK(parts) ==
    Len(parts) = 2 /\ parts[1] = StrBearer

\* apiKey.startsWith('axh_')
KeyFormatOK(apiKey) ==
    HasPrefix(apiKey, KeyPrefix)

Reply(code) ==
    req' = [req EXCEPT !.stage = "responded", !.status = code]

\* validateApiKey up to its await: the three format checks
ValidateHeader ==
    /\ req.stage = "validate"
    /\ IF HeaderMissing(req)
       THEN Reply(401)
       ELSE IF ~HeaderFormatOK(Split(req.header))
       THEN Reply(401)
       ELSE IF ~KeyFormatOK(Split(req.header)[2])
       THEN Reply(401)
       ELSE req' = [req EXCEPT !.stage = "lookup"]
    /\ UNCHANGED <<keys, gen, rl, now, period>>
    /\ UnchangedClient

\* .eq('key_hash', hashedKey).single(): the rows with that hash
RowsWithHash(hashedKey) ==
    {row \in keys : row.key_hash = hashedKey}

\* the query fails (no row, several rows, or the database is unreachable)
LookupFails ==
    /\ req.stage = "lookup"
    /\ Reply(401)
    /\ UNCHANGED <<keys, gen, rl, now, period>>
    /\ UnchangedClient

\* the query returns its single row: a deactivated key is refused, an
\* active key lets the request through to next()
LookupReturns ==
    /\ req.stage = "lookup"
    /\ LET rows == RowsWithHash(Sha256Hex(Split(req.header)[2]))
       IN  /\ Cardinality(rows) = 1
           /\ LET data == CHOOSE row \in rows : TRUE
              IN  IF ~data.is_active
                  THEN Reply(401)
                  ELSE req' = [req EXCEPT !.stage = "handler"]
    /\ UNCHANGED <<keys, gen, rl, now, period>>
    /\ UnchangedClient

\* the route handler answers
HandlerReplies ==
    /\ req.stage = "handler"
    /\ Reply(200)
    /\ UNCHANGED <<keys, gen, rl, now, period>>
    /\ UnchangedClient

\* the response has been sent
RequestDone ==
    /\ req.stage = "responded"
    /\ req' = NoRequest
    /\ UNCHANGED <<keys, gen, rl, now, period>>
    /\ UnchangedClient

NextAuth ==
    \/ SetKeys
    \/ Receive
    \/ ValidateHeader
    \/ LookupFails
    \/ LookupReturns
    \/ HandlerReplies
    \/ RequestDone

SpecAuth ==
    InitAuth /\ [][NextAuth]_vars

(***************************************************************************)
(* The companion server: generateApiKey.                                   *)
(***************************************************************************)
InitKeys ==
    /\ InitWith(<<>>)
    /\ call = NoCall

\* `axh_` followed by the hex of randomBytes(100): a different key per call
FreshKey(c) ==
    KeyPrefix \o <<Digit(c)>>

\* generateApiKey is called: checkKeyExist sends its select and awaits
CallGenerate(c) ==
    /\ gen[c].pc = "idle"
    /\ gen' = [gen EXCEPT ![c].pc = "check"]
    /\ UNCHANGED <<keys, req, rl, now, period>>
    /\ UnchangedClient

\* checkKeyExist: false when the query failed, else data.length > 0
checkKeyExist(failed) ==
    IF failed THEN FALSE ELSE keys # {}

\* the select returns; generateApiKey throws when a key exists, otherwise
\* builds the key and sends the insert
CheckReturns(c) ==
    /\ gen[c].pc = "check"
    /\ \E failed \in BOOLEAN :
           IF checkKeyExist(failed)
           THEN gen' = [gen EXCEPT ![c] = [pc |-> "threw", outcome |-> "exists"]]
           ELSE gen' = [gen EXCEPT ![c].pc = "insert"]
    /\ UNCHANGED <<keys, req, rl, now, period>>
    /\ UnchangedClient

\* the insert returns: the row is stored, or the database reported an error
\* (key_hash is UNIQUE)
InsertReturns(c) ==
    /\ gen[c].pc = "insert"
    /\ \/ /\ RowsWithHash(Sha256Hex(FreshKey(c))) = {}
          /\ keys' = keys \cup {KeyRow(FreshKey(c), TRUE)}
          /\ gen' = [gen EXCEPT ![c] = [pc |-> "returned", outcome |-> "key"]]
       \/ /\ gen' = [gen EXCEPT ![c] = [pc |-> "threw", outcome |-> "store"]]
          /\ UNCHANGED keys
    /\ UNCHANGED <<req, rl, now, period>>
    /\ UnchangedClient

NextKeys ==
    \/ \E c \in Callers : CallGenerate(c)
    \/ \E c \in Callers : CheckReturns(c)
    \/ \E c \in Callers : InsertReturns(c)

SpecKeys ==
    InitKeys /\ [][NextKeys]_vars

(***************************************************************************)
(* The companion server: rateLimitMiddleware, for one client IP.           *)
(***************************************************************************)
RATE_LIMIT ==
    50

RATE_WINDOW ==
    900000

\* the clock steps the model takes per RATE_WINDOW
WindowParts ==
    2

\* the clock steps of a run
MaxServerTicks ==
    3

TickMs ==
    RATE_WINDOW \div WindowParts

InitRate ==
    /\ InitWith(<<>>)
    /\ call = NoCall

\* Date.now() advances
TimePasses ==
    /\ now < MaxServerTicks * TickMs
    /\ now' = now + TickMs
    /\ UNCHANGED <<keys, gen, req, rl, period>>
    /\ UnchangedClient

\* an observer starts to count the requests admitted in the RATE_WINDOW ms
\* from now on
OpenPeriod ==
    /\ ~period.open
    /\ period' = [open |-> TRUE, start |-> now, admitted |-> 0]
    /\ UNCHANGED <<keys, gen, req, rl, now>>
    /\ UnchangedClient

\* record && now < record.resetAt
WindowLive(record, t) ==
    record # NoRecord /\ t < record.resetAt

LimitReachedAfter(record) ==
    record.count > RATE_LIMIT

\* record.count >= RATE_LIMIT
LimitReached(record) ==
    record.count >= RATE_LIMIT

\* the observed period after a request was admitted at time t
Admitted(p, t) ==
    IF p.open /\ p.start <= t /\ t < p.start + RATE_WINDOW
    THEN [p EXCEPT !.admitted = @ + 1]
    ELSE p

\* the middleware handles a request of the watched IP: 429, or the count is
\* raised or started anew and next() runs
rateLimitMiddleware ==
    /\ IF WindowLive(rl, now)
       THEN IF LimitReached(rl)
            THEN /\ req' = [NoRequest EXCEPT !.stage = "responded", !.status = 429]
                 /\ UNCHANGED <<rl, period>>
            ELSE /\ rl' = [rl EXCEPT !.count = @ + 1]
                 /\ req' = [NoRequest EXCEPT !.stage = "handler"]
                 /\ period' = Admitted(period, now)
       ELSE /\ rl' = [count |-> 1, resetAt |-> now + RATE_WINDOW]
            /\ req' = [NoRequest EXCEPT !.stage = "handler"]
            /\ period' = Admitted(period, now)
    /\ UNCHANGED <<keys, gen, now>>
    /\ UnchangedClient

NextRate ==
    \/ TimePasses
    \/ OpenPeriod
    \/ rateLimitMiddleware

SpecRate ==
    InitRate /\ [][NextRate]_vars

(***************************************************************************)
(* Properties.                                                             *)
(***************************************************************************)
\* goroutines inside CheckDomain: the call has started and not returned
InFlight ==
    {i \in Tasks : pc[i] \in {"limiter", "request", "backoff", "backoffCtxDone"}}

\* the message names a cancellation or an expired deadline
IsCancelMessage(m) ==
    Contains(m, NeedleCancel) \/ Contains(m, NeedleDeadline)

\* C1: at every instant of RunCheck at most Concurrent CheckDomain calls have
\* started and not yet returned.
C1_ConcurrencyBound ==
    Cardinality(InFlight) <= Concurrent

\* the limit is reached while another goroutine waits for a permit
C1_Witness ==
    /\ Cardinality(InFlight) = Concurrent
    /\ \E i \in Tasks : pc[i] = "acquire"

\* C2: when RunCheck has returned, Results[i] of the report is the result of
\* checking Domains[i], for every i.
C2_OrderPreserved ==
    rpc = "returned" =>
        /\ Len(report.Results) = Len(domains)
        /\ \A i \in Tasks : report.Results[i].Domain = domains[i]

\* RunCheck has returned after the last domain finished first (its probe was
\* answered while the context was active) and the first domain finished
\* later (its rate-limiter wait failed after the context had ended)
C2_Witness ==
    /\ rpc = "returned"
    /\ Len(domains) >= 2
    /\ report.Results[Len(domains)].Status = StatusUp
    /\ HasPrefix(report.Results[1].ErrorMessage, MsgRateLimiter)

\* C3: generateReport runs, and RunCheck returns, only when every goroutine
\* has finished and has written its slot.
C3_JoinBeforeReport ==
    rpc \in {"report", "returned"} =>
        \A i \in Tasks : pc[i] = "done" /\ results[i] # ZeroResult

\* wg.Wait() has returned for a run of several domains
C3_Witness ==
    rpc = "report" /\ Len(domains) >= 2 /\ \A i \in Tasks : pc[i] = "done"

\* C4: a CheckDomain call that returns after the context has ended, the
\* context having ended before the call produced its result, returns status
\* Down with a cancellation or deadline message.
C4_CancelledIsDown ==
    [][\A i \in Tasks :
         (/\ ctx # "active"
          /\ pc[i] \in {"acquire", "limiter", "request", "backoff", "backoffCtxDone"}
          /\ pc'[i] = "stored")
         => /\ results'[i].Status = StatusDown
            /\ IsCancelMessage(results'[i].ErrorMessage)]_vars

\* C5: the report counts every configured domain, each in exactly one of
\* the three buckets.
C5_CountsAddUp ==
    rpc = "returned" =>
        /\ report.TotalChecks = Len(report.Results)
        /\ report.TotalChecks = Len(domains)
        /\ report.TotalChecks = report.Uptime + report.Downtime + report.Degraded

\* a report with a result in each bucket, one of them from a failed
\* rate-limiter wait
C5_Witness ==
    /\ rpc = "returned"
    /\ report.Uptime > 0 /\ report.Downtime > 0 /\ report.Degraded > 0
    /\ \E i \in Tasks : HasPrefix(report.Results[i].ErrorMessage, MsgRateLimiter)

\* C6: UptimePercent is 0 for an empty result set and 100 * Uptime /
\* TotalChecks otherwise, and lies between 0 and 100.
C6_UptimePercent ==
    (call.fn = "generateReport" /\ call.done) =>
        LET r == call.ret
            p == r.UptimePercent
        IN  /\ p[2] > 0
            /\ r.TotalChecks = 0 => p = <<0, 1>>
            /\ r.TotalChecks > 0 => p[1] * r.TotalChecks = 100 * r.Uptime * p[2]
            /\ 0 <= p[1] /\ p[1] <= 100 * p[2]

\* a report whose percentage is not a whole number: 1 of 3 up
C6_Witness ==
    /\ call.fn = "generateReport" /\ call.done
    /\ call.ret.TotalChecks = 3 /\ call.ret.Uptime = 1
    /\ call.ret.UptimePercent = <<100, 3>>

C8_ReadmeStatusTable ==
    (call.fn = "determineStatus" /\ call.done) =>
        LET c == call.args[1]
            t == call.args[2]
        IN  /\ call.ret = "up" => (c \in 200..299 /\ t < 1000)
            /\ (c \in 200..299 /\ t > 1000) => call.ret = "degraded"
            /\ c \in 300..499 => call.ret = "degraded"
            /\ c \in 500..599 => call.ret = "down"

\* C9: without a transport error IsRetryableError is true exactly for 429,
\* 500, 502, 503 and 504.
C9_RetryableStatusCodes ==
    (call.fn = "IsRetryableError" /\ call.done /\ call.args[1].isNil) =>
        (call.ret <=> call.args[2] \in {429, 500, 502, 503, 504})

\* 501 is a 5xx code that is not retried
C9_Witness ==
    /\ call.fn = "IsRetryableError" /\ call.done
    /\ call.args = <<NilErr, 501>>
    /\ call.ret = FALSE

\* the message indicates a malformed payload or request, or an explicit
\* cancellation of the context (context.Canceled reads "context canceled")
IndicatesNonTransient(m) ==
    \/ Contains(m, NeedleMarshal)
    \/ Contains(m, NeedleInvalid)
    \/ Contains(m, MsgCanceled)

\* C10: IsRetryableError classifies a transport error as retryable unless
\* its message indicates a malformed payload/request or an explicit context
\* cancellation.
C10_TransportErrorRetryable ==
    (call.fn = "IsRetryableError" /\ call.done /\ ~call.args[1].isNil) =>
        (call.ret <=> ~IndicatesNonTransient(call.args[1].msg))

\* C11: an attempt that ends with the redirect cap's error is final: the
\* check never backs off for a retry after "too many redirects".
C11_RedirectCapTerminal ==
    \A i \in Tasks :
        pc[i] \in {"backoff", "backoffCtxDone"} =>
            ~Contains(result[i].ErrorMessage, MsgTooManyRedirects)

\* C12: CalculateBackoff(k) is 1s, 2s, 4s, 8s, 16s for k = 0..4 and 30s
\* from k = 5 on; it never exceeds MaxBackoff and does not decrease in k.
C12_BackoffSequence ==
    (call.fn = "CalculateBackoff" /\ call.done) =>
        LET k == call.args[1]
        IN  /\ call.ret = CASE k = 0 -> 1000
                             [] k = 1 -> 2000
                             [] k = 2 -> 4000
                             [] k = 3 -> 8000
                             [] k = 4 -> 16000
                             [] OTHER -> 30000
            /\ call.ret <= 30000
            /\ k > 0 => CalculateBackoff(k - 1) <= call.ret

\* attempt index 10 gives the cap, not 1024 s
C12_Witness ==
    /\ call.fn = "CalculateBackoff" /\ call.done
    /\ call.args = <<10>>
    /\ call.ret = 30000

\* C13: one CheckDomain call hands at most MaxRetries + 1 = 4 requests to
\* the HTTP client and enters at most 3 backoff sleeps.
C13_AttemptBound ==
    \A i \in Tasks : stats[i].requests <= 4 /\ stats[i].sleeps <= 3

\* the fourth request of a call is in flight after three backoffs
C13_Witness ==
    \E i \in Tasks :
        pc[i] = "request" /\ stats[i].requests = 4 /\ stats[i].sleeps = 3

\* C14: a check has never issued more requests than it has acquired
\* rate-limiter tokens.
C14_TokenBeforeRequest ==
    \A i \in Tasks : stats[i].requests <= stats[i].tokens

\* a retry's request is in flight, each request preceded by its own token
C14_Witness ==
    \E i \in Tasks :
        pc[i] = "request" /\ stats[i].requests = 3 /\ stats[i].tokens = 3

\* C15: when the rate-limiter wait fails, the step a check takes is the
\* return of a Down result whose message names the rate-limiter error; no
\* request is made and no retry follows.
C15_WaitFailureReturnsDown ==
    [][\A i \in Tasks :
         (pc[i] = "limiter" /\ ctx # "active" /\ pc'[i] # pc[i])
         => /\ pc'[i] = "stored"
            /\ results'[i].Status = StatusDown
            /\ results'[i].StatusCode = 0
            /\ HasPrefix(results'[i].ErrorMessage, MsgRateLimiter)]_vars

\* a check has returned the rate-limiter failure
C15_Witness ==
    \E i \in Tasks :
        /\ pc[i] = "stored"
        /\ results[i].Status = StatusDown
        /\ HasPrefix(results[i].ErrorMessage, MsgRateLimiter \o MsgDeadlineExceeded)

\* C17: RunCheck never fails because of a domain: whatever transport errors,
\* HTTP failures and rate-limiter errors the checks hit, it returns a nil
\* error and a report with one populated result per configured domain, each
\* with a status among up, degraded and down.
C17_RunCheckNeverFails ==
    rpc = "returned" =>
        /\ runErr.isNil
        /\ Len(report.Results) = Len(domains)
        /\ \A i \in Tasks :
               /\ report.Results[i].Domain = domains[i]
               /\ report.Results[i].Status \in {StatusUp, StatusDegraded, StatusDown}
               /\ report.Results[i].StatusCode = 0 =>
                      report.Results[i].ErrorMessage # <<>>

\* RunCheck has returned a report holding a rate-limiter error, a request
\* that failed or could not be created, and an HTTP failure status
C17_Witness ==
    /\ rpc = "returned"
    /\ runErr.isNil
    /\ \E i, j, k \in Tasks :
           /\ HasPrefix(report.Results[i].ErrorMessage, MsgRateLimiter)
           /\ \/ HasPrefix(report.Results[j].ErrorMessage, MsgRequestFailed)
              \/ HasPrefix(report.Results[j].ErrorMessage, MsgCreateFailed)
           /\ report.Results[k].StatusCode >= 400

\* C18: SendNotifications makes no webhook request for a report in which every
\* domain is up; when something is down or degraded each configured webhook
\* is attempted exactly once, whether or not the other one failed, and a
\* webhook that is not configured is never attempted.
C18_NotifyOnlyOnIssues ==
    mpc # "idle" =>
        /\ (report.Downtime = 0 /\ report.Degraded = 0) =>
               slackCalls = 0 /\ discordCalls = 0
        /\ slackCalls <= (IF cfg.slack THEN 1 ELSE 0)
        /\ discordCalls <= (IF cfg.discord THEN 1 ELSE 0)
        /\ (mpc \in {"exit", "exited"}
               /\ (report.Downtime > 0 \/ report.Degraded > 0)) =>
               /\ slackCalls = (IF cfg.slack THEN 1 ELSE 0)
               /\ discordCalls = (IF cfg.discord THEN 1 ELSE 0)

\* a report with degraded domains only, both webhooks configured: the Slack
\* send failed and the Discord send was still made
C18_Witness ==
    /\ mpc = "exited"
    /\ report.Downtime = 0 /\ report.Degraded > 0
    /\ cfg.slack /\ cfg.discord
    /\ "slack" \in notifyErrs
    /\ slackCalls = 1 /\ discordCalls = 1

\* C19: the process exits with code 1 exactly when the report has a Down
\* domain and with code 0 otherwise; errors of SaveReport, SubmitToAPI and
\* the webhooks do not change the code.
C19_ExitCode ==
    mpc = "exited" =>
        /\ exitCode \in {0, 1}
        /\ exitCode = 1 <=>
               \E i \in 1..Len(report.Results) :
                   report.Results[i].Status = StatusDown

\* exit code 0 for a report with a degraded domain and none down, after the
\* save, the submission and a webhook have all failed
C19_Witness ==
    /\ mpc = "exited"
    /\ exitCode = 0
    /\ report.Degraded > 0
    /\ ~saveErr.isNil /\ ~submitErr.isNil /\ notifyErrs # {}

\* C20: SubmitToAPI goes on to another attempt after an answer only when the
\* status is 429, 500, 502, 503 or 504; after any other 4xx answer it
\* returns without a further request.
C20_RetryOnlyTransient ==
    (mpc \in {"subBackoff", "subBackoffCtxDone"} /\ subStatus >= 400) =>
        subStatus \in RetryableStatusCodes

\* C16: in any interval, the tokens granted to the checks sharing the run's
\* limiter number at most BurstSize plus one per 1/RequestsPerSecond second
\* elapsed in the interval, whatever the order of the checks' Wait calls.
C16_RateBound ==
    window.grants <= BurstSize + window.elapsed

\* the bound is met with equality after time has passed, the bucket empty and
\* a check still waiting for a token
C16_Witness ==
    /\ window.elapsed > 0
    /\ window.grants = BurstSize + window.elapsed
    /\ bucket[1] = 0
    /\ \E i \in Tasks : pc[i] = "limiter"

\* C21: when SaveReport fails at any of its steps it has called the email
\* fallback exactly once before returning the error, when it succeeds it has
\* not called it, and in both cases main goes on to the API submission.
C21_SaveFailureFallback ==
    [][(mpc = "save" /\ mpc' # mpc) =>
           /\ mpc' = "submit"
           /\ saveErr'.isNil => emails' = emails
           /\ ~saveErr'.isNil => emails' = emails + 1]_vars

\* the file could not be written: one email was sent, the report was then
\* posted to the API and the Slack webhook called before the exit
C21_Witness ==
    /\ mpc = "exited"
    /\ ~saveErr.isNil /\ HasPrefix(saveErr.msg, MsgWriteFailed)
    /\ submitErr.isNil
    /\ emails = 1
    /\ posts > 0
    /\ slackCalls = 1

\* the attempt that gave r ended in an error the classifier calls retryable,
\* or in a status other than Up with status code 429, 500, 502, 503 or 504
RetryableOutcome(r) ==
    IF r.StatusCode = 0
    THEN /\ r.Status = StatusDown
         /\ ~Contains(r.ErrorMessage, NeedleMarshal)
         /\ ~Contains(r.ErrorMessage, NeedleInvalid)
         /\ ~Contains(r.ErrorMessage, NeedleCtxCancelled)
    ELSE /\ r.Status # StatusUp
         /\ r.StatusCode \in {429, 500, 502, 503, 504}

SameAsSeen(r, sn) ==
    /\ r.Status = sn.Status
    /\ r.StatusCode = sn.StatusCode
    /\ r.ResponseTime = sn.ResponseTime

\* C24 as stated: whenever CheckDomain has returned after at least one probe
\* attempt, the returned result has the status, status code and response
\* time that the last probe attempt observed, in every exit path.
C24_ReturnsLastAttempt ==
    \A i \in Tasks :
        (pc[i] = "stored" /\ stats[i].seen # NoProbe)
        => SameAsSeen(results[SlotIndex(i)], stats[i].seen)

\* C24 amended: the returned result is the last probe attempt's on every
\* exit path but the rate-limiter exit; a check whose rate-limiter wait
\* fails returns a fresh Down result with status code 0 and response time
\* 0, whatever its earlier attempts observed.
C24_ReturnsLastAttemptOrWaitFailure ==
    \A i \in Tasks :
        (pc[i] = "stored" /\ stats[i].seen # NoProbe)
        => IF HasPrefix(results[SlotIndex(i)].ErrorMessage, MsgRateLimiter)
           THEN SameAsSeen(results[SlotIndex(i)], ObservedCreateFailure)
           ELSE SameAsSeen(results[SlotIndex(i)], stats[i].seen)

\* a check returned through the rate-limiter exit after an attempt that was
\* answered 429
C24_Witness ==
    \E i \in Tasks :
        /\ pc[i] = "stored"
        /\ stats[i].seen.StatusCode = 429
        /\ stats[i].seen.Status = StatusDegraded
        /\ results[SlotIndex(i)].StatusCode = 0
        /\ HasPrefix(results[SlotIndex(i)].ErrorMessage, MsgRateLimiter)

\* C25: every result CheckDomain has returned is well formed: with status
\* code 0 (no response received) the status is Down and the error message
\* is not empty; with a status code the status is determineStatus of the
\* code and the response time; and an Up result has no error message.
C25_ResultWellFormed ==
    \A i \in Tasks :
        pc[i] \in {"stored", "released", "done"}
        => LET r == results[SlotIndex(i)]
           IN  /\ r.StatusCode = 0
                    => (r.Status = StatusDown /\ r.ErrorMessage # <<>>)
               /\ r.StatusCode # 0
                    => r.Status = determineStatus(r.StatusCode, r.ResponseTime)
               /\ r.Status = StatusUp => r.ErrorMessage = <<>>

\* a check returned the result of a failed request without a response, and
\* the message says so
C25_Witness ==
    \E i \in Tasks :
        /\ pc[i] = "stored"
        /\ results[SlotIndex(i)].StatusCode = 0
        /\ results[SlotIndex(i)].ResponseTime = ErrorResponseTime
        /\ HasPrefix(results[SlotIndex(i)].ErrorMessage, MsgRequestFailed)

\* the goroutine of domain k is between its spawn and its write of the slot
Writing(k) ==
    pc[k] \in {"acquire", "limiter", "request", "backoff", "backoffCtxDone"}

\* C26: RunCheck starts one goroutine per domain, in order, each once; slot
\* k of results changes only in the step in which goroutine k stores its
\* result, which happens once, into an empty slot, while RunCheck is still
\* in its loop or in wg.Wait(); generateReport reads the slots only when
\* every domain has had its goroutine and none of them can still write.
C26_OneWriterPerSlot ==
    [][/\ spawned' # spawned
          => /\ spawned' = spawned + 1
             /\ spawned' <= Len(domains)
             /\ pc[spawned'] = "none"
             /\ pc'[spawned'] = "acquire"
       /\ \A k \in Tasks :
            /\ (pc[k] = "none" /\ pc'[k] # "none") => spawned' = k
            /\ results'[k] # results[k]
                 => /\ Writing(k) /\ pc'[k] = "stored"
                    /\ results[k] = ZeroResult
                    /\ rpc \in {"spawn", "wait"}
                    /\ \A j \in Tasks \ {k} : results'[j] = results[j]
            /\ (pc[k] # "stored" /\ pc'[k] = "stored")
                 => /\ Writing(k)
                    /\ results[k] = ZeroResult
                    /\ results'[k] # ZeroResult
            /\ (pc[k] = "stored" /\ pc'[k] # "stored") => ~Writing(k)'
       /\ (rpc = "report" /\ rpc' # "report")
          => /\ spawned = Len(domains)
             /\ \A k \in Tasks : pc[k] = "done" /\ results[k] # ZeroResult
             /\ report'.Results = results]_vars

\* one goroutine has stored its result while another is still in its check
\* and a third waits for a permit
C26_Witness ==
    /\ Len(domains) >= 3
    /\ \E i, j, k \in Tasks :
           /\ pc[i] = "stored" /\ results[i] # ZeroResult
           /\ pc[j] = "request" /\ results[j] = ZeroResult
           /\ pc[k] = "acquire" /\ results[k] = ZeroResult

\* the goroutine of domain k holds a permit of the semaphore
HoldsPermit(k) ==
    pc[k] \in {"limiter", "request", "backoff", "backoffCtxDone", "stored"}

\* C27: under fair scheduling RunCheck returns; every goroutine gets its
\* permit; the permits held are at all times those of the goroutines between
\* acquire and release, never more than Concurrent, and none is held once
\* RunCheck has returned.
C27_RunCheckTerminates ==
    /\ <>[](rpc = "returned" /\ semaphore = 0
               /\ \A k \in Tasks : pc[k] = "done")
    /\ [](/\ semaphore = Cardinality({k \in Tasks : HoldsPermit(k)})
           /\ semaphore <= Concurrent)

\* RunCheck has returned, the context never having ended, for more domains
\* than there are permits
C27_Witness ==
    /\ rpc = "returned"
    /\ ctx = "active"
    /\ semaphore = 0
    /\ Len(domains) > Concurrent

\* C28 as stated: once the context has ended no check starts an HTTP
\* request, and a check that returns from the rate-limiter wait or from a
\* backoff sleep returns a Down result without having probed again.
C28_NoProbeAfterCancel ==
    [][\A i \in Tasks :
         ctx # "active"
         => /\ pc'[i] = "request" => pc[i] = "request"
            /\ stats'[i].requests <= stats[i].requests
            /\ (pc[i] \in {"limiter", "backoff", "backoffCtxDone"} /\ pc'[i] # pc[i])
                 => \/ pc[i] = "backoff" /\ pc'[i] = "limiter"
                    \/ /\ pc'[i] = "stored"
                       /\ results'[SlotIndex(i)].Status = StatusDown]_vars

\* the request carries 'Bearer axh_...' and the hash of the key it carries
\* is that of a stored, active key
Authorized(rq) ==
    /\ rq.present
    /\ HasPrefix(rq.header, StrBearer \o Space \o KeyPrefix)
    /\ \E row \in keys :
           /\ row.is_active
           /\ row.key_hash =
                  Sha256Hex(SubSeq(rq.header, Len(StrBearer) + 2, Len(rq.header)))

C29_AtMostOneKey ==
    Cardinality(keys) <= 1

\* C30 as stated: in any period of RATE_WINDOW ms the middleware admits at
\* most RATE_LIMIT requests of one IP.
C30_AnyPeriodBound ==
    period.open => period.admitted <= RATE_LIMIT

\* C30 amended: the bound holds per window of the middleware (from the
\* request that starts a record to its resetAt): the count never passes
\* RATE_LIMIT, a period that coincides with the window sees at most
\* RATE_LIMIT admissions, and any other period of RATE_WINDOW ms sees at most
\* twice that; a request arriving in a live window whose count has reached
\* the limit is answered 429, does not reach the handler and leaves the
\* record as it was.
C30_WindowBound ==
    /\ [](/\ rl.count <= RATE_LIMIT
           /\ (period.open /\ rl # NoRecord
                  /\ period.start + RATE_WINDOW = rl.resetAt)
                => period.admitted <= RATE_LIMIT
           /\ period.admitted <= 2 * RATE_LIMIT)
    /\ [][(rl # NoRecord /\ now < rl.resetAt /\ rl.count >= RATE_LIMIT
             /\ now' = now)
           => /\ rl' = rl
              /\ period'.admitted <= period.admitted
              /\ req' # req => (req'.stage = "responded" /\ req'.status = 429)]_vars

\* a request has been answered 429 in a window that holds RATE_LIMIT
\* admissions, all of them seen by a period that coincides with the window
C30_Witness ==
    /\ req.status = 429
    /\ rl.count = RATE_LIMIT
    /\ period.open
    /\ period.start + RATE_WINDOW = rl.resetAt
    /\ period.admitted = RATE_LIMIT
====
